---- MODULE Spec2Model ----
(***************************************************************************)
(* ROV training simulator: frame loop of ROVSimulator (input, integrator,  *)
(* collision detection, damage / mission state, objectives).               *)
(*                                                                         *)
(* Numbers are fixed point.  Lengths are in millimetres, velocities in     *)
(* mm/s, angles in milliradians, angular velocity in mrad/s, unit vectors  *)
(* and scalar factors in thousandths.  Time is counted in ticks of 1/60 s  *)
(* (the reference frame of the drag law), so that dt*60 is an integer.     *)
(* speedMultiplier is counted in quarters, damage in 1/1000 of a percent.  *)
(***************************************************************************)
EXTENDS Integers, Sequences, FiniteSets, TLC

\* ------------------------------------------------------------------ scalars
Abs(a) == IF a < 0 THEN -a ELSE a
Sgn(a) == IF a < 0 THEN -1 ELSE IF a > 0 THEN 1 ELSE 0
Min(a, b) == IF a < b THEN a ELSE b
Max(a, b) == IF a > b THEN a ELSE b

\* a*b/c for naturals, rounded down, without forming a*b
MulDivNat(a, b, c) == (a \div c) * b + ((a % c) * b) \div c

\* a*b/c rounded toward zero (c > 0)
MulDiv(a, b, c) == Sgn(a) * Sgn(b) * MulDivNat(Abs(a), Abs(b), c)

RECURSIVE SqrtSearch(_, _, _)
SqrtSearch(n, lo, hi) ==
    IF lo >= hi THEN lo
    ELSE LET mid == (lo + hi + 1) \div 2
         IN  IF mid * mid <= n THEN SqrtSearch(n, mid, hi)
             ELSE SqrtSearch(n, lo, mid - 1)

\* Math.sqrt on naturals, rounded down
ISqrt(n) == SqrtSearch(n, 0, 46340)

\* ------------------------------------------------------------------ vectors
Vec(a, b, c) == [x |-> a, y |-> b, z |-> c]
Zero3 == Vec(0, 0, 0)
VAdd(u, v) == Vec(u.x + v.x, u.y + v.y, u.z + v.z)
VSub(u, v) == Vec(u.x - v.x, u.y - v.y, u.z - v.z)

\* Vector3.multiplyScalar by the factor num/den
VScale(v, num, den) == Vec(MulDiv(v.x, num, den), MulDiv(v.y, num, den), MulDiv(v.z, num, den))

\* Vector3.length; large vectors are scaled down before squaring
VLen(v) ==
    LET m == Max(Abs(v.x), Max(Abs(v.y), Abs(v.z)))
        k == m \div 20000 + 1
        a == Abs(v.x) \div k
        b == Abs(v.y) \div k
        c == Abs(v.z) \div k
    IN  IF m = Abs(v.x) + Abs(v.y) + Abs(v.z) THEN m
        ELSE k * ISqrt(a * a + b * b + c * c)

VDist(u, v) == VLen(VSub(u, v))

\* a normalisation that turns the zero vector into the x axis
VNormalizeAxis(v) ==
    LET len == VLen(v)
    IN  IF len = 0 THEN Vec(1000, 0, 0) ELSE VScale(v, 1000, len)

\* Vector3.normalize: divideScalar(length || 1); the result is in thousandths
VNormalize(v) ==
    LET len == VLen(v)
    IN  IF len = 0 THEN Zero3 ELSE VScale(v, 1000, len)

\* Vector3.dot of a vector with a unit vector given in thousandths
VDotUnit(v, n) == MulDiv(v.x, n.x, 1000) + MulDiv(v.y, n.y, 1000) + MulDiv(v.z, n.z, 1000)

\* Vector3.addScaledVector(n, s) with n a unit vector in thousandths
VAddScaled(p, n, s) == Vec(p.x + MulDiv(n.x, s, 1000), p.y + MulDiv(n.y, s, 1000), p.z + MulDiv(n.z, s, 1000))


\* ------------------------------------------------------------- trigonometry
Pi == 3142

\* sin on [0, pi] (milliradians in, thousandths out), Bhaskara's rational form
SinHalf(a) ==
    LET p == (a * (Pi - a)) \div 1000
    IN  Min(1000, (16000 * p) \div (49348 - 4 * p))

\* Math.sin / Math.cos: milliradians in, thousandths out
Sin(a) ==
    LET r == a % (2 * Pi)
    IN  IF r <= Pi THEN SinHalf(r) ELSE -SinHalf(r - Pi)
Cos(a) == Sin(a + Pi \div 2)

RECURSIVE PowMicro(_, _)
\* (base/1000)^n in millionths
PowMicro(base, n) == IF n = 0 THEN 1000000 ELSE (PowMicro(base, n - 1) * base) \div 1000

\* a decay factor applied once per step, whatever the length of the step
PowPerStep(base, n) == (PowMicro(base, 1) + 50) \div 100

\* Math.pow(base, dt * 60) in ten-thousandths, rounded; dt is in ticks of 1/60 s
Pow(base, n) == (PowMicro(base, n) + 50) \div 100

\* ---------------------------------------------------------------- constants
TicksPerSecond == 60
MaxDt == 6                    \* Math.min(clock.getDelta(), 0.1): 0.1 s
maxDamage == 100000           \* 100 %, in thousandths of a percent
collisionCooldown == 30       \* 0.5 s
TunnelCooldown == 18          \* 0.3 s
ObstacleCooldown == 30        \* 500 ms
StartTime == 60               \* init() sleeps 5 * 100 ms + 500 ms before start()
linearDrag == 985
angularDrag == 975
collisionDistance == 300
pushForce == 100

\* ------------------------------------------------------------------- bounds
InputFrames == 4              \* frames explored by SpecInput
BoundaryFrames == 5           \* frames explored by SpecBoundary
DriftFrames == 4              \* frames explored by SpecDrift
SpeedFrames == 4              \* frames explored by SpecSpeed
CommandFrames == 2            \* frames of SpecCommand with any stick position
TiltFrames == 25              \* frames explored by SpecCommand
PauseFrames == 6              \* frames explored by SpecPause
PhysicsFrames == 5            \* frames explored by SpecPhysics
MaxBoost == 8                 \* speed multiplier (quarters) up to which SpecPhysics boosts
ObjectiveFrames == 10         \* frames explored by SpecObjectives
DamageFrames == 26            \* frames explored by SpecDamage
ShortFrames == 7              \* of which the first may be short, with keys changing
LongFrame == 31               \* a stalled frame, longer than every cooldown
BareFrames == 4               \* frames explored by SpecBare
MaxLoads == 3                 \* model loads requested in a run of SpecSelector
SelectorFrames == 2           \* frames explored by SpecSelector
CentreFrames == 3             \* frames explored by SpecCentre
StallFrames == 20             \* frames of SpecOrder that are stalls
OrderFrames == 26             \* frames explored by SpecOrder
ResponseFrames == 5           \* frames explored by SpecResponses

rovHitboxes == [rov_pi |-> 350, rov_omega |-> 1000]

ZeroInput == [surge |-> 0, sway |-> 0, heave |-> 0, yaw |-> 0, pitch |-> 0, roll |-> 0]

VARIABLES
    sim,        \* the ROVSimulator instance
    gamepad,    \* the GamepadController: connected, buttonState
    now,        \* wall clock, ticks since page load
    obs         \* what the last frame did (history, for the properties)

vars == <<sim, gamepad, now, obs>>


\* ------------------------------------------------------ GamepadController
deadzone == 150

applyDeadzone(value) ==
    IF Abs(value) < deadzone THEN 0
    ELSE Sgn(value) * (((Abs(value) - deadzone) * 1000) \div (1000 - deadzone))

\* processAxes: the sticks and triggers overwrite sim.input
processAxes(s, pad) ==
    [s EXCEPT !.input = [@ EXCEPT !.sway = applyDeadzone(pad.axes[1]),
                                  !.surge = -applyDeadzone(pad.axes[2]),
                                  !.yaw = -applyDeadzone(pad.axes[3]),
                                  !.pitch = -(applyDeadzone(pad.axes[4]) \div 2),
                                  !.heave = pad.rt - pad.lt]]

\* onButtonPress: B pauses, Y arms, LB / RB change the speed multiplier
onButtonPress(s, buttonIndex) ==
    CASE buttonIndex = 1 -> [s EXCEPT !.isPaused = ~@]
      [] buttonIndex = 3 -> [s EXCEPT !.isArmed = ~@]
      [] buttonIndex = 4 -> [s EXCEPT !.speedMultiplier = Max(1, @ - 1)]
      [] buttonIndex = 5 -> [s EXCEPT !.speedMultiplier = Min(12, @ + 1)]
      [] OTHER -> s

RECURSIVE processButtons(_, _, _, _)
\* processButtons: buttons in index order, only the newly pressed ones act
processButtons(s, pressed, buttonState, i) ==
    IF i > 16 THEN s
    ELSE processButtons(IF i \in pressed /\ i \notin buttonState THEN onButtonPress(s, i) ELSE s,
                        pressed, buttonState, i + 1)

\* GamepadController.update
GamepadUpdate(s, gp, pad) ==
    IF ~gp.connected THEN s
    ELSE processButtons(processAxes(s, pad), pad.pressed, gp.buttonState, 0)

\* ------------------------------------------------------------ updateInput
Held(s, code) == IF code \in s.keys THEN 1000 ELSE 0
Clamp(lo, hi, a) == Max(lo, Min(hi, a))
\* keyboard and gamepad added up
StrongerSum(kb, gp) == kb + gp

\* "o que tiver maior valor absoluto vence"
Stronger(kb, gp) == IF Abs(kb) > Abs(gp) THEN kb ELSE gp

updateInput(s) ==
    IF ~s.isArmed THEN [s EXCEPT !.input = ZeroInput]
    ELSE
    LET kbSurge == Held(s, "KeyW") - Held(s, "KeyS")
        kbSway == Held(s, "KeyD") - Held(s, "KeyA")
        kbHeave == Held(s, "KeyQ") - Held(s, "KeyE")
        kbYaw == Held(s, "ArrowLeft") - Held(s, "ArrowRight")
        pitchInput == Held(s, "ArrowUp") - Held(s, "ArrowDown")
        pitch1 == IF pitchInput # 0
                  THEN Clamp(-800, 800, s.cameraPitch + MulDiv(pitchInput, 20, 1000))
                  ELSE s.cameraPitch
        gpPitch == s.input.pitch
        pitch2 == IF Abs(gpPitch) > 100
                  THEN Clamp(-800, 800, pitch1 + MulDiv(gpPitch, 30, 1000))
                  ELSE pitch1
    IN  [s EXCEPT !.input = [@ EXCEPT !.surge = Stronger(kbSurge, s.input.surge),
                                      !.sway = Stronger(kbSway, s.input.sway),
                                      !.heave = Stronger(kbHeave, s.input.heave),
                                      !.yaw = Stronger(kbYaw, s.input.yaw)],
                  !.cameraPitch = pitch2]


\* -------------------------------------------------------- CollisionSystem
\* the 18 probing rays; the vertical ones stay in world space
Ray(a, b, c, vert) == [vector |-> Vec(a, b, c), vertical |-> vert]
rays == << Ray(1000, 0, 0, FALSE), Ray(-1000, 0, 0, FALSE), Ray(0, 0, -1000, FALSE),
           Ray(0, 0, 1000, FALSE), Ray(0, 1000, 0, TRUE), Ray(0, -1000, 0, TRUE),
           Ray(707, 0, -707, FALSE), Ray(707, 0, 707, FALSE), Ray(-707, 0, -707, FALSE),
           Ray(-707, 0, 707, FALSE), Ray(707, 707, 0, FALSE), Ray(707, -707, 0, FALSE),
           Ray(-707, 707, 0, FALSE), Ray(-707, -707, 0, FALSE), Ray(0, 707, -1000, FALSE),
           Ray(0, -707, -1000, FALSE), Ray(0, 707, 1000, FALSE), Ray(0, -707, 1000, FALSE) >>

\* Vector3.applyQuaternion for the yaw-only Euler rotation of the vehicle
applyYaw(d, yaw) ==
    Vec(MulDiv(d.x, Cos(yaw), 1000) + MulDiv(d.z, Sin(yaw), 1000),
        d.y,
        MulDiv(d.z, Cos(yaw), 1000) - MulDiv(d.x, Sin(yaw), 1000))

Along(v, axis) == IF axis = "x" THEN v.x ELSE IF axis = "y" THEN v.y ELSE v.z

NoHit == -1

\* distance at which a ray meets one collidable face (an axis-aligned plane), or NoHit
HitDistance(origin, direction, face) ==
    LET da == Along(direction, face.axis)
        delta == face.at - Along(origin, face.axis)
    IN  IF da = 0 \/ delta * Sgn(da) < 0 THEN NoHit
        ELSE MulDivNat(Abs(delta), VLen(direction), Abs(da))

RECURSIVE NearestHit(_, _, _, _)
\* Raycaster.intersectObjects: the nearest intersection no farther than raycaster.far
NearestHit(origin, direction, faces, i) ==
    IF i > Len(faces) THEN NoHit
    ELSE LET d == HitDistance(origin, direction, faces[i])
             rest == NearestHit(origin, direction, faces, i + 1)
         IN  IF d = NoHit \/ d > collisionDistance THEN rest
             ELSE IF rest = NoHit THEN d ELSE Min(d, rest)

RECURSIVE castRays(_, _, _, _, _)
castRays(rovPosition, yaw, faces, i, correctionVector) ==
    IF i > Len(rays) THEN correctionVector
    ELSE LET direction == IF rays[i].vertical THEN rays[i].vector
                          ELSE applyYaw(rays[i].vector, yaw)
             distance == NearestHit(rovPosition, direction, faces, 1)
             pushBack == collisionDistance - distance
         IN  castRays(rovPosition, yaw, faces, i + 1,
                      IF distance # NoHit /\ distance < collisionDistance
                      THEN VAddScaled(correctionVector, direction, -MulDiv(pushBack, pushForce, 1000))
                      ELSE correctionVector)

\* the probe answering with a full upward push-back when nothing is registered
rayCheckCollisionsDefault(cs, rovPosition, yaw) ==
    IF ~cs.enabled \/ Len(cs.collidableObjects) = 0
    THEN Vec(0, MulDiv(collisionDistance, pushForce, 1000), 0)
    ELSE castRays(rovPosition, yaw, cs.collidableObjects, 1, Zero3)

\* CollisionSystem.checkCollisions
rayCheckCollisions(cs, rovPosition, yaw) ==
    IF ~cs.enabled \/ Len(cs.collidableObjects) = 0 THEN Zero3
    ELSE castRays(rovPosition, yaw, cs.collidableObjects, 1, Zero3)

\* ---------------------------------------------------------- updatePhysics
getROVCollisionRadius(s) == rovHitboxes[s.currentROVModel]

\* the thruster, current and drag part of updatePhysics: the new velocity
thrustAndDrag(s, dt) ==
    LET speedMult == s.speedMultiplier
        acceleration == (15000 * speedMult) \div 4
        yaw == s.rov.rotation
        pitch == s.cameraPitch
        forward == VNormalize(Vec(MulDiv(Cos(yaw), Cos(pitch), 1000), Sin(pitch),
                                  -MulDiv(Sin(yaw), Cos(pitch), 1000)))
        right == Vec(Cos(yaw - Pi \div 2), 0, -Sin(yaw - Pi \div 2))
        up == Vec(0, 1000, 0)
        step == MulDiv(acceleration, dt, TicksPerSecond)
        v1 == IF s.input.surge # 0
              THEN VAddScaled(s.rov.velocity, forward, MulDiv(step, s.input.surge, 1000))
              ELSE s.rov.velocity
        v2 == IF s.input.sway # 0
              THEN VAddScaled(v1, right, MulDiv(step, s.input.sway, 1000)) ELSE v1
        v3 == IF s.input.heave # 0
              THEN VAddScaled(v2, up, MulDiv(step, s.input.heave, 1000)) ELSE v2
        v4 == [v3 EXCEPT !.x = @ + MulDiv(MulDiv(s.environment.currentX, dt, TicksPerSecond), 3, 10),
                         !.z = @ + MulDiv(MulDiv(s.environment.currentY, dt, TicksPerSecond), 3, 10)]
        dragCoeff == 10000 - Pow(linearDrag, dt)
        v5 == VScale(v4, 10000 - dragCoeff, 10000)
    IN  IF VLen(v4) > 1
        THEN IF VLen(v5) < 10 THEN Zero3 ELSE v5
        ELSE v4

\* no linear clamp
limitSpeedNever(v, maxSpeed) == v

\* "Limitar velocidades": the linear clamp of updatePhysics
limitSpeed(v, maxSpeed) ==
    IF VLen(v) > maxSpeed THEN VScale(VNormalize(v), maxSpeed, 1000) ELSE v

\* the yaw channel of updatePhysics: the new angular velocity
angularStep(s, dt) ==
    LET speedMult == s.speedMultiplier
        maxAngularSpeed == (10000 * speedMult) \div 4
        angularAcceleration == (8000 * speedMult) \div 4
        w1 == IF s.input.yaw # 0
              THEN s.rov.angularVelocity
                   + MulDiv(MulDiv(angularAcceleration, dt, TicksPerSecond), s.input.yaw, 1000)
              ELSE s.rov.angularVelocity
        angularDragCoeff == 10000 - Pow(angularDrag, dt)
        w2 == IF Abs(w1) > 1 THEN MulDiv(w1, 10000 - angularDragCoeff, 10000) ELSE w1
    IN  Clamp(-maxAngularSpeed, maxAngularSpeed, w2)

\* a ray correction that throws the vehicle back at three times the inbound speed
applyCorrectionElastic(r, correction) ==
    IF VLen(correction) > 0
    THEN LET correctionNorm == VNormalize(correction)
             velocityInCollisionDir == VDotUnit(r.velocity, correctionNorm)
         IN  [r EXCEPT !.position = VAdd(@, correction),
                       !.velocity = IF velocityInCollisionDir < 0
                                    THEN VAddScaled(@, correctionNorm, -velocityInCollisionDir * 4)
                                    ELSE @]
    ELSE r

\* the ray correction of updatePhysics: position pushed, inbound velocity cut by 80 %
applyCorrection(r, correction) ==
    IF VLen(correction) > 0
    THEN LET correctionNorm == VNormalize(correction)
             velocityInCollisionDir == VDotUnit(r.velocity, correctionNorm)
         IN  [r EXCEPT !.position = VAdd(@, correction),
                       !.velocity = IF velocityInCollisionDir < 0
                                    THEN VAddScaled(@, correctionNorm,
                                                    -MulDiv(velocityInCollisionDir, 8, 10))
                                    ELSE @]
    ELSE r

\* the limits with the position clamped and the velocity left as it is
applyLimitsElastic(r, seabedDepth) ==
    [r EXCEPT !.position.y = Clamp(-seabedDepth + 1000, -2000, @)]

\* "Limites do ambiente": ceiling at -2 m, floor at -seabedDepth + 1 m
applyLimits(r, seabedDepth) ==
    LET r1 == IF r.position.y > -2000
              THEN [r EXCEPT !.position.y = -2000, !.velocity.y = Min(0, @)]
              ELSE r
        minAlt == -seabedDepth + 1000
    IN  IF r1.position.y < minAlt
        THEN [r1 EXCEPT !.position.y = minAlt, !.velocity.y = Max(0, @)]
        ELSE r1

\* "Atualizar posicao": the clamped velocities stored, the position advanced
moveBy(rov, velocity, angularVelocity, dt) ==
    [rov EXCEPT !.velocity = velocity,
                !.angularVelocity = angularVelocity,
                !.position = VAdd(@, VScale(velocity, dt, TicksPerSecond))]

\* "Verificar e aplicar colisoes": the ray correction, when a collision system exists
correctPosition(s, moved) ==
    IF s.collisionSystem.present
    THEN applyCorrection(moved, rayCheckCollisions(s.collisionSystem, moved.position, moved.rotation))
    ELSE moved

\* "Atualizar rotacao"
turn(r, dt) == [r EXCEPT !.rotation = @ + MulDiv(r.angularVelocity, dt, TicksPerSecond)]

\* the thruster, drag and clamp part of updatePhysics, up to "Atualizar posicao"
integrate(s, dt) ==
    moveBy(s.rov, limitSpeed(thrustAndDrag(s, dt), (25000 * s.speedMultiplier) \div 4),
           angularStep(s, dt), dt)

\* the correction the collision system returns for the moved vehicle
probeCorrection(s, moved) ==
    IF s.collisionSystem.present
    THEN rayCheckCollisions(s.collisionSystem, moved.position, moved.rotation)
    ELSE Zero3

\* the rest of updatePhysics: ray correction, rotation, limits; the moved vehicle and the
\* correction it received are kept as history
correctAndLimit(s, moved, dt) ==
    [s EXCEPT !.rov = applyLimits(turn(correctPosition(s, moved), dt), s.environment.seabedDepth),
              !.probe = [moved |-> moved, correction |-> probeCorrection(s, moved)]]

updatePhysics(s, dt) ==
    IF s.isPaused THEN s ELSE correctAndLimit(s, integrate(s, dt), dt)


\* ------------------------------------------------- damage and mission state
\* addEvent: the event feed; the model keeps the entries of the current frame
addEvent(s, type, source, index) ==
    [s EXCEPT !.events = Append(@, [type |-> type, source |-> source, index |-> index])]

\* history: the overlaps found in the current frame, and whether each applied damage
addContact(s, source, index, damaged) ==
    [s EXCEPT !.contacts = Append(@, [source |-> source, index |-> index, damaged |-> damaged])]

\* the guard with a strict comparison: damage of exactly the maximum does not fail
checkDestroyedStrict(s, source, index) ==
    IF s.damage > maxDamage
    THEN addEvent([s EXCEPT !.missionFailed = TRUE], "danger", source, index)
    ELSE s

\* "Verificar se ROV foi destruido": the guard evaluated after a damage application
checkDestroyed(s, source, index) ==
    IF s.damage >= maxDamage
    THEN addEvent([s EXCEPT !.missionFailed = TRUE], "danger", source, index)
    ELSE s

\* the damage application of checkCollisions and checkTunnelCollision
addDamage(damage, damageAmount) == damage + damageAmount

\* the damage application of checkObstacleCollision
addDamageClamped(damage, damageAmount) == Min(maxDamage, damage + damageAmount)

\* the iteration with a vehicle that touches the obstacle counted as overlapping
collideWithTouching(s, i, t) ==
    LET obstacle == s.obstacles[i]
        dist == VDist(s.rov.position, obstacle.position)
        minDist == (IF obstacle.radius = 0 THEN 1000 ELSE obstacle.radius) + getROVCollisionRadius(s)
        impactSpeed == VLen(s.rov.velocity)
        damageAmount == Min(20000, impactSpeed * 3)
        pushDir == VNormalize(VSub(s.rov.position, obstacle.position))
        hit == [s EXCEPT !.lastCollisionTime = t,
                         !.damage = addDamage(@, damageAmount),
                         !.rov.position = VAddScaled(@, pushDir, minDist - dist + 100),
                         !.rov.velocity = VScale(@, 3, 10)]
    IN  IF dist <= minDist
        THEN IF t - s.lastCollisionTime > collisionCooldown
             THEN checkDestroyed(addEvent(addContact(hit, "obstacle", i, TRUE),
                                          "warning", "obstacle", i), "obstacle", i)
             ELSE addContact(s, "obstacle", i, FALSE)
        ELSE s

\* one iteration of the loop of checkCollisions
collideWith(s, i, t) ==
    LET obstacle == s.obstacles[i]
        dist == VDist(s.rov.position, obstacle.position)
        minDist == (IF obstacle.radius = 0 THEN 1000 ELSE obstacle.radius) + getROVCollisionRadius(s)
        impactSpeed == VLen(s.rov.velocity)
        damageAmount == Min(20000, impactSpeed * 3)
        pushDir == VNormalize(VSub(s.rov.position, obstacle.position))
        hit == [s EXCEPT !.lastCollisionTime = t,
                         !.damage = addDamage(@, damageAmount),
                         !.rov.position = VAddScaled(@, pushDir, minDist - dist + 100),
                         !.rov.velocity = VScale(@, 3, 10)]
    IN  IF dist < minDist
        THEN IF t - s.lastCollisionTime > collisionCooldown
             THEN checkDestroyed(addEvent(addContact(hit, "obstacle", i, TRUE),
                                          "warning", "obstacle", i), "obstacle", i)
             ELSE addContact(s, "obstacle", i, FALSE)
        ELSE s

RECURSIVE checkCollisionsFrom(_, _, _)
checkCollisionsFrom(s, i, t) ==
    IF i > Len(s.obstacles) THEN s ELSE checkCollisionsFrom(collideWith(s, i, t), i + 1, t)

checkCollisions(s, t) == checkCollisionsFrom(s, 1, t)

RECURSIVE closestIndex(_, _, _, _)
\* the linear scan of checkTunnelCollision: the first path point at minimal distance
closestIndex(rovPos, path, i, best) ==
    IF i > Len(path) THEN best
    ELSE closestIndex(rovPos, path, i + 1,
                      IF best = 0 \/ VDist(rovPos, path[i]) < VDist(rovPos, path[best])
                      THEN i ELSE best)

\* the corridor check with the vehicle at exactly the safe distance counted as outside
checkTunnelCollisionTouching(s, t) ==
    IF Len(s.tunnelPath) = 0 THEN s
    ELSE
    LET closestPoint == s.tunnelPath[closestIndex(s.rov.position, s.tunnelPath, 1, 0)]
        minDist == VDist(s.rov.position, closestPoint)
        safeDistance == s.tunnelRadius - getROVCollisionRadius(s) - 500
        overshoot == minDist - safeDistance
        damageAmount == Min(15000, overshoot * 5)
        pushDir == VNormalize(VSub(closestPoint, s.rov.position))
        hit == [s EXCEPT !.lastCollisionTime = t,
                         !.damage = addDamage(@, damageAmount),
                         !.rov.position = VAddScaled(@, pushDir, overshoot + 300),
                         !.rov.velocity = VScale(@, 2, 10)]
    IN  IF minDist >= safeDistance
        THEN IF t - s.lastCollisionTime > TunnelCooldown
             THEN checkDestroyed(addEvent(addContact(hit, "tunnel", 1, TRUE),
                                          "warning", "tunnel", 1), "tunnel", 1)
             ELSE addContact(s, "tunnel", 1, FALSE)
        ELSE s

\* checkTunnelCollision: the nearest path point, and the penalty when the vehicle is outside
checkTunnelCollision(s, t) ==
    IF Len(s.tunnelPath) = 0 THEN s
    ELSE
    LET closestPoint == s.tunnelPath[closestIndex(s.rov.position, s.tunnelPath, 1, 0)]
        minDist == VDist(s.rov.position, closestPoint)
        safeDistance == s.tunnelRadius - getROVCollisionRadius(s) - 500
        overshoot == minDist - safeDistance
        damageAmount == Min(15000, overshoot * 5)
        pushDir == VNormalize(VSub(closestPoint, s.rov.position))
        hit == [s EXCEPT !.lastCollisionTime = t,
                         !.damage = addDamage(@, damageAmount),
                         !.rov.position = VAddScaled(@, pushDir, overshoot + 300),
                         !.rov.velocity = VScale(@, 2, 10)]
    IN  IF minDist > safeDistance
        THEN IF t - s.lastCollisionTime > TunnelCooldown
             THEN checkDestroyed(addEvent(addContact(hit, "tunnel", 1, TRUE),
                                          "warning", "tunnel", 1), "tunnel", 1)
             ELSE addContact(s, "tunnel", 1, FALSE)
        ELSE s

\* Box3.expandByScalar(..).containsPoint(..) for one block of a wall
blockContains(block, margin, p) ==
    /\ block.min.x - margin <= p.x /\ p.x <= block.max.x + margin
    /\ block.min.y - margin <= p.y /\ p.y <= block.max.y + margin
    /\ block.min.z - margin <= p.z /\ p.z <= block.max.z + margin

RECURSIVE firstBlock(_, _, _, _)
\* index of the first block of a wall that contains the point, 0 when none does
firstBlock(blocks, margin, p, i) ==
    IF i > Len(blocks) THEN 0
    ELSE IF blockContains(blocks[i], margin, p) THEN i
    ELSE firstBlock(blocks, margin, p, i + 1)

\* the overlap test of checkObstacleCollision for one obstacle
isColliding(s, obstacle) ==
    LET rovRadius == getROVCollisionRadius(s)
    IN  IF obstacle.isWall
        THEN firstBlock(obstacle.children, rovRadius \div 2, s.rov.position, 1) # 0
        ELSE VDist(s.rov.position, obstacle.position)
               < rovRadius + (IF obstacle.collisionRadius = 0 THEN 2000 ELSE obstacle.collisionRadius)

\* the damage gate of checkObstacleCollision: per obstacle, 500 ms
canDamage(obstacle, t) == obstacle.lastHit = 0 \/ t - obstacle.lastHit > ObstacleCooldown

\* the body of "if (isColliding)" in checkObstacleCollision
hitObstacle(s, i, t) ==
    LET obstacle == s.tunnelObstacles[i]
        rovPos == s.rov.position
        obstaclePos == IF obstacle.isWall
                       THEN LET b == obstacle.children[firstBlock(obstacle.children,
                                                       getROVCollisionRadius(s) \div 2, rovPos, 1)]
                            IN  Vec((b.min.x + b.max.x) \div 2, (b.min.y + b.max.y) \div 2,
                                    (b.min.z + b.max.z) \div 2)
                       ELSE obstacle.position
        damaged == IF canDamage(obstacle, t)
                   THEN addEvent(addContact([s EXCEPT !.tunnelObstacles[i].lastHit = t,
                                                      !.damage = addDamageClamped(@, 10000)],
                                            "tunnelObstacle", i, TRUE),
                                 "warning", "tunnelObstacle", i)
                   ELSE addContact(s, "tunnelObstacle", i, FALSE)
        pushDir == VNormalize(VSub(rovPos, obstaclePos))
        velDot == VDotUnit(s.rov.velocity, pushDir)
        pushed == [damaged EXCEPT !.rov.position = VAddScaled(@, pushDir, 400),
                                  !.rov.velocity = IF velDot < 0
                                                   THEN VAddScaled(@, pushDir, -MulDiv(velDot, 9, 10))
                                                   ELSE @]
    IN  checkDestroyed(pushed, "tunnelObstacle", i)

RECURSIVE checkObstacleFrom(_, _, _)
\* the loop of checkObstacleCollision: stops at the first overlapping obstacle
checkObstacleFrom(s, i, t) ==
    IF i > Len(s.tunnelObstacles) THEN s
    ELSE IF isColliding(s, s.tunnelObstacles[i]) THEN hitObstacle(s, i, t)
    ELSE checkObstacleFrom(s, i + 1, t)

checkObstacleCollision(s, t) == checkObstacleFrom(s, 1, t)

\* ------------------------------------------------------- updateObjectives
\* one iteration of the loop of updateObjectives
\* evaluation that does not skip a completed objective
evaluateObjectiveAgain(s, i) ==
    LET obj == s.objectives[i]
        dist == VDist(s.rov.position, obj.target)
        radius == IF obj.radius = 0 THEN 5000 ELSE obj.radius
        award == addEvent([s EXCEPT !.objectives[i].completed = TRUE, !.score = @ + obj.points],
                          "success", "objective", i)
    IN  IF obj.type = "distance" /\ obj.hasTarget /\ dist < radius THEN award
        ELSE IF obj.type = "auto" THEN award
        ELSE s

\* evaluation that awards an automatic objective to an undamaged vehicle only
evaluateObjectiveIntact(s, i) ==
    LET obj == s.objectives[i]
        dist == VDist(s.rov.position, obj.target)
        radius == IF obj.radius = 0 THEN 5000 ELSE obj.radius
        award == addEvent([s EXCEPT !.objectives[i].completed = TRUE, !.score = @ + obj.points],
                          "success", "objective", i)
    IN  IF obj.completed THEN s
        ELSE IF obj.type = "distance" /\ obj.hasTarget /\ dist < radius THEN award
        ELSE IF obj.type = "auto" /\ s.damage = 0 THEN award
        ELSE s

\* the loop of updateObjectives for objective i
evaluateObjective(s, i) ==
    LET obj == s.objectives[i]
        dist == VDist(s.rov.position, obj.target)
        radius == IF obj.radius = 0 THEN 5000 ELSE obj.radius
        award == addEvent([s EXCEPT !.objectives[i].completed = TRUE, !.score = @ + obj.points],
                          "success", "objective", i)
    IN  IF obj.completed THEN s
        ELSE IF obj.type = "distance" /\ obj.hasTarget /\ dist < radius THEN award
        ELSE IF obj.type = "auto" THEN award
        ELSE s

RECURSIVE evaluateFrom(_, _)
evaluateFrom(s, i) ==
    IF i > Len(s.objectives) THEN s ELSE evaluateFrom(evaluateObjective(s, i), i + 1)

\* completion as soon as one objective is completed
allCompletedSome(s) == \E i \in 1..Len(s.objectives) : s.objectives[i].completed

allCompleted(s) == \A i \in 1..Len(s.objectives) : s.objectives[i].completed

\* the awards of a frame without their points
updateObjectivesUnscored(s) ==
    LET e == evaluateFrom(s, 1)
        f == [e EXCEPT !.score = s.score]
    IN  IF allCompleted(f) /\ ~f.missionCompleted
        THEN addEvent([f EXCEPT !.missionCompleted = TRUE], "success", "mission", 0)
        ELSE f

updateObjectives(s) ==
    LET e == evaluateFrom(s, 1)
    IN  IF allCompleted(e) /\ ~e.missionCompleted
        THEN addEvent([e EXCEPT !.missionCompleted = TRUE], "success", "mission", 0)
        ELSE e

updateTimer(s) == [s EXCEPT !.sessionTime = @ + 1]


\* ---------------------------------------------------------------- scenarios
\* Scenario data is read-only input.  The vehicle starts at x = 0 heading +x.
Depth == -10000
Sphere(px, r) == [position |-> Vec(px, Depth, 0), radius |-> r]
Rock(px, py, r) == [position |-> Vec(px, py, 0), radius |-> r]
Objective(type, px, r, pts) ==
    [type |-> type, hasTarget |-> type = "distance", target |-> Vec(px, Depth, 0),
     radius |-> r, points |-> pts, completed |-> FALSE]
TunnelSphere(px, r) ==
    [isWall |-> FALSE, position |-> Vec(px, Depth, 0), collisionRadius |-> r,
     children |-> <<>>, lastHit |-> 0]
Block(x1, x2) == [min |-> Vec(x1, Depth - 5000, -5000), max |-> Vec(x2, Depth + 5000, 5000)]
TunnelWall(px) ==
    [isWall |-> TRUE, position |-> Vec(px, Depth, 0), collisionRadius |-> 0,
     children |-> <<Block(px - 1250, px + 1250)>>, lastHit |-> 0]

\* createSeabed: the seabed and surface boxes every scenario has
SeabedBoxes(seabedDepth) ==
    << [position |-> Vec(0, -seabedDepth - 500, 0), radius |-> 0],
       [position |-> Vec(0, 0, 0), radius |-> 0] >>

\* The worlds. The scenario files are not among the sources, so the objectives, the
\* depths and the start position are inputs; rocks are placed at random by createRocks,
\* the corridor by createObstacleTunnels. Distances are kept short, so that a few
\* frames take the vehicle from one object to the next. The shallow reef has one metre of
\* water between the floor and the ceiling and a rock resting on the floor, its centre
\* above the floor as createRocks places it, touching the vehicle at the start. Open
\* water has a scenario model without a mesh and nothing else registered. The arena
\* gate is the training arena with one small trigger between its two rocks. The arena
\* centre has a rock, a corridor obstacle and a path point at the very place the first
\* frame of full thrust takes the vehicle to, and its scenario mesh out of reach.
Scenarios ==
    [ training_arena |->
        [ scenarioId |-> "training_arena", seabedDepth |-> 11000, startY |-> Depth, currentX |-> 0, currentY |-> 0,
          objectives |-> << Objective("distance", 900, 500, 100), Objective("auto", 0, 0, 50) >>,
          obstacles |-> SeabedBoxes(11000) \o << Sphere(2000, 700), Sphere(1200, 700) >>,
          tunnelPath |-> << Vec(15150, Depth, 0), Vec(20000, Depth, 0) >>,
          tunnelObstacles |-> << TunnelSphere(-5600, 5000), TunnelWall(3300) >>,
          scenarioModel |-> FALSE, collidableObjects |-> <<>> ],
      fpso_inspection |->
        [ scenarioId |-> "fpso_inspection", seabedDepth |-> 11000, startY |-> Depth, currentX |-> 0, currentY |-> 0,
          objectives |-> << Objective("distance", 600, 500, 100), Objective("distance", -900, 0, 200),
                            Objective("inspect", 0, 0, 300) >>,
          obstacles |-> SeabedBoxes(11000) \o << Sphere(1200, 700), Sphere(-1500, 700) >>,
          tunnelPath |-> <<>>,
          tunnelObstacles |-> <<>>,
          scenarioModel |-> TRUE, collidableObjects |-> << [axis |-> "x", at |-> 400] >> ],
      free_dive |->
        [ scenarioId |-> "free_dive", seabedDepth |-> 11000, startY |-> Depth, currentX |-> 0, currentY |-> 0,
          objectives |-> <<>>,
          obstacles |-> SeabedBoxes(11000),
          tunnelPath |-> <<>>,
          tunnelObstacles |-> <<>>,
          scenarioModel |-> FALSE, collidableObjects |-> <<>> ],
      shallow_reef |->
        [ scenarioId |-> "shallow_reef", seabedDepth |-> 4000, startY |-> -2500,
          currentX |-> 0, currentY |-> 0,
          objectives |-> <<>>,
          obstacles |-> SeabedBoxes(4000) \o << Rock(1750, -2500, 1400) >>,
          tunnelPath |-> <<>>,
          tunnelObstacles |-> <<>>,
          scenarioModel |-> FALSE, collidableObjects |-> <<>> ],
      arena_gate |->
        [ scenarioId |-> "training_arena", seabedDepth |-> 11000, startY |-> Depth,
          currentX |-> 0, currentY |-> 0,
          objectives |-> << Objective("distance", 850, 60, 100) >>,
          obstacles |-> SeabedBoxes(11000) \o << Sphere(2000, 700), Sphere(1200, 700) >>,
          tunnelPath |-> << Vec(15150, Depth, 0), Vec(20000, Depth, 0) >>,
          tunnelObstacles |-> << TunnelSphere(-5600, 5000), TunnelWall(3300) >>,
          scenarioModel |-> FALSE, collidableObjects |-> <<>> ],
      arena_centre |->
        [ scenarioId |-> "training_arena", seabedDepth |-> 11000, startY |-> Depth,
          currentX |-> 0, currentY |-> 0,
          objectives |-> << Objective("auto", 0, 0, 50), Objective("distance", 9000, 500, 100) >>,
          obstacles |-> SeabedBoxes(11000) \o << Sphere(136, 700) >>,
          tunnelPath |-> << Vec(136, Depth, 0), Vec(5000, Depth, 0) >>,
          tunnelObstacles |-> << TunnelSphere(136, 1000) >>,
          scenarioModel |-> TRUE, collidableObjects |-> << [axis |-> "x", at |-> 9000] >> ],
      arena_wall |->
        [ scenarioId |-> "training_arena", seabedDepth |-> 11000, startY |-> Depth,
          currentX |-> 0, currentY |-> 0,
          objectives |-> << Objective("distance", 9000, 500, 100) >>,
          obstacles |-> SeabedBoxes(11000) \o << Sphere(1300, 700) >>,
          tunnelPath |-> << Vec(-15300, Depth, 0) >>,
          tunnelObstacles |-> << TunnelSphere(1400, 1000) >>,
          scenarioModel |-> TRUE, collidableObjects |-> << [axis |-> "x", at |-> 400] >> ],
      open_water |->
        [ scenarioId |-> "open_water", seabedDepth |-> 11000, startY |-> Depth,
          currentX |-> 0, currentY |-> 0,
          objectives |-> <<>>,
          obstacles |-> <<>>,
          tunnelPath |-> <<>>,
          tunnelObstacles |-> <<>>,
          scenarioModel |-> TRUE, collidableObjects |-> <<>> ] ]

\* history: what a collision check found and what it left
Snapshot(position, velocity, damage, lastCollisionTime) ==
    [position |-> position, velocity |-> velocity, damage |-> damage,
     lastCollisionTime |-> lastCollisionTime]

SnapshotOf(s) == Snapshot(s.rov.position, s.rov.velocity, s.damage, s.lastCollisionTime)

\* the state the constructor and init() leave when start() is called
NewSimulator(cfg) ==
    [ scenarioId |-> cfg.scenarioId,
      isRunning |-> TRUE, isPaused |-> FALSE, isArmed |-> TRUE,
      sessionTime |-> 0, score |-> 0,
      objectives |-> cfg.objectives,
      speedMultiplier |-> 4,
      damage |-> 0, lastCollisionTime |-> 0,
      obstacles |-> cfg.obstacles,
      missionFailed |-> FALSE, missionCompleted |-> FALSE,
      rov |-> [position |-> Vec(0, cfg.startY, 0), velocity |-> Zero3, rotation |-> 0,
               angularVelocity |-> 0],
      input |-> ZeroInput, keys |-> {}, cameraPitch |-> 0,
      environment |-> [seabedDepth |-> cfg.seabedDepth, currentX |-> cfg.currentX,
                       currentY |-> cfg.currentY],
      currentROVModel |-> "rov_pi",
      rovModel |-> [mesh |-> "fallback", loading |-> << "rov_pi" >>, requested |-> 1,
                    failed |-> 0],
      tunnelPath |-> cfg.tunnelPath, tunnelRadius |-> 16000,
      tunnelObstacles |-> cfg.tunnelObstacles,
      collisionSystem |-> [present |-> cfg.scenarioModel, enabled |-> TRUE,
                           collidableObjects |-> cfg.collidableObjects],
      events |-> <<>>, contacts |-> <<>>,
      integrated |-> [position |-> Vec(0, cfg.startY, 0), velocity |-> Zero3, rotation |-> 0,
                      angularVelocity |-> 0],
      probe |-> [moved |-> [position |-> Vec(0, cfg.startY, 0), velocity |-> Zero3,
                            rotation |-> 0, angularVelocity |-> 0],
                 correction |-> Zero3],
      corridor |-> [checked |-> FALSE, before |-> Snapshot(Vec(0, cfg.startY, 0), Zero3, 0, 0),
                    after |-> Snapshot(Vec(0, cfg.startY, 0), Zero3, 0, 0)] ]

\* history kept for the properties: what the last frame consumed, whether its linear
\* clamp had to act, the height the frame started from, when each source last
\* applied damage, which completed objectives the vehicle has left again
NoFrame(cfg) ==
    [ frame |-> FALSE, paused |-> FALSE, command |-> ZeroInput, dt |-> 0, limited |-> FALSE,
      fromY |-> cfg.startY,
      lastDamage |-> [ obstacle |-> [i \in 1..Len(cfg.obstacles) |-> 0],
                       tunnelObstacle |-> [i \in 1..Len(cfg.tunnelObstacles) |-> 0],
                       tunnel |-> [i \in 1..1 |-> 0] ],
      outside |-> {} ]

Damaging(contacts) == SelectSeq(contacts, LAMBDA c : c.damaged)

InsideTrigger(s, i) ==
    VDist(s.rov.position, s.objectives[i].target)
        < (IF s.objectives[i].radius = 0 THEN 5000 ELSE s.objectives[i].radius)

Observe(o, polled, after, dt, t) ==
    LET hits == Damaging(after.contacts)
    IN  [ frame |-> TRUE, paused |-> polled.isPaused, command |-> polled.input, dt |-> dt,
          fromY |-> polled.rov.position.y,
          limited |-> /\ ~polled.isPaused
                      /\ VLen(thrustAndDrag(polled, dt)) > (25000 * polled.speedMultiplier) \div 4,
          lastDamage |->
              [src \in DOMAIN o.lastDamage |->
                  [i \in DOMAIN o.lastDamage[src] |->
                      IF \E k \in 1..Len(hits) : hits[k].source = src /\ hits[k].index = i
                      THEN t ELSE o.lastDamage[src][i]]],
          outside |-> o.outside \cup {i \in 1..Len(after.objectives) :
                                         /\ after.objectives[i].completed
                                         /\ after.objectives[i].type = "distance"
                                         /\ ~InsideTrigger(after, i)} ]

InitWith(ids) ==
    /\ \E id \in ids : sim = NewSimulator(Scenarios[id]) /\ obs = NoFrame(Scenarios[id])
    /\ gamepad = [connected |-> FALSE, buttonState |-> {}]
    /\ now = StartTime

\* ------------------------------------------------------------------ actions
\* the key handler with a speed reduction that has no lower limit
handleKeyDownUnlimited(s, code) ==
    CASE code = "Space" -> [s EXCEPT !.isArmed = ~@]
      [] code = "Escape" -> [s EXCEPT !.isPaused = ~@]
      [] code = "ShiftLeft" -> [s EXCEPT !.speedMultiplier = Min(40, @ + 2)]
      [] code = "ControlLeft" -> [s EXCEPT !.speedMultiplier = @ - 1]
      [] OTHER -> s

\* handleKeyDown, after the keydown listeners have set keys[e.code]
handleKeyDown(s, code) ==
    CASE code = "Space" -> [s EXCEPT !.isArmed = ~@]
      [] code = "Escape" -> [s EXCEPT !.isPaused = ~@]
      [] code = "ShiftLeft" -> [s EXCEPT !.speedMultiplier = Min(40, @ + 2)]
      [] code = "ControlLeft" -> [s EXCEPT !.speedMultiplier = Max(1, @ - 1)]
      [] OTHER -> s

KeyDown(code) ==
    /\ sim' = handleKeyDown([sim EXCEPT !.keys = @ \cup {code}], code)
    /\ obs' = [obs EXCEPT !.frame = FALSE]
    /\ UNCHANGED <<gamepad, now>>

KeyUp(code) ==
    /\ code \in sim.keys
    /\ sim' = [sim EXCEPT !.keys = @ \ {code}]
    /\ obs' = [obs EXCEPT !.frame = FALSE]
    /\ UNCHANGED <<gamepad, now>>

\* GamepadController.onConnect / onDisconnect
GamepadConnected ==
    /\ ~gamepad.connected
    /\ gamepad' = [gamepad EXCEPT !.connected = TRUE]
    /\ obs' = [obs EXCEPT !.frame = FALSE]
    /\ UNCHANGED <<sim, now>>

GamepadDisconnected ==
    /\ gamepad.connected
    /\ gamepad' = [gamepad EXCEPT !.connected = FALSE]
    /\ obs' = [obs EXCEPT !.frame = FALSE]
    /\ UNCHANGED <<sim, now>>

IdlePad == [axes |-> <<0, 0, 0, 0>>, rt |-> 0, lt |-> 0, pressed |-> {}]

\* history: the vehicle as the corridor check found it and as it left it
recordCorridor(before, after) ==
    [after EXCEPT !.corridor = [checked |-> TRUE, before |-> SnapshotOf(before),
                                after |-> SnapshotOf(after)]]

\* the two checks of animate that only the training arena has
arenaStep(c, t) == checkObstacleCollision(recordCorridor(c, checkTunnelCollision(c, t)), t)

\* the collision part of animate: checkCollisions, then the two training_arena checks
collisionStep(s, t) ==
    IF s.scenarioId = "training_arena" THEN arenaStep(checkCollisions(s, t), t)
    ELSE checkCollisions(s, t)

\* history: the vehicle as the integrator left it, before the collision checks
recordIntegrated(s) == [s EXCEPT !.integrated = s.rov]

\* a frame that evaluates the objectives before the collision checks
animateObjectivesFirst(s, gp, pad, elapsed, t) ==
    LET dt == Min(elapsed, MaxDt)
        polled == updateInput(GamepadUpdate([s EXCEPT !.events = <<>>, !.contacts = <<>>], gp, pad))
    IN  updateTimer(collisionStep(recordIntegrated(updateObjectives(updatePhysics(polled, dt))), t))

\* animate: one frame, elapsed ticks after the previous one
animate(s, gp, pad, elapsed, t) ==
    LET dt == Min(elapsed, MaxDt)
        polled == updateInput(GamepadUpdate([s EXCEPT !.events = <<>>, !.contacts = <<>>], gp, pad))
    IN  updateTimer(updateObjectives(collisionStep(recordIntegrated(updatePhysics(polled, dt)), t)))

Frame(elapsed, pad) ==
    /\ sim.isRunning
    /\ gamepad.connected \/ pad = IdlePad
    /\ sim' = animate(sim, gamepad, pad, elapsed, now + elapsed)
    /\ gamepad' = IF gamepad.connected THEN [gamepad EXCEPT !.buttonState = pad.pressed] ELSE gamepad
    /\ now' = now + elapsed
    /\ obs' = Observe(obs, updateInput(GamepadUpdate(sim, gamepad, pad)), sim',
                       Min(elapsed, MaxDt), now + elapsed)

ForwardPad == [axes |-> <<0, -1000, 0, 0>>, rt |-> 0, lt |-> 0, pressed |-> {}]
BackwardPad == [axes |-> <<0, 1000, 0, 0>>, rt |-> 0, lt |-> 0, pressed |-> {}]
PausePad == [axes |-> <<0, -1000, 0, 0>>, rt |-> 0, lt |-> 0, pressed |-> {1}]
\* both sticks and the right trigger at their stops
FullPad == [axes |-> <<1000, -1000, -1000, -1000>>, rt |-> 1000, lt |-> 0, pressed |-> {}]
ReversePad == [axes |-> <<-1000, 1000, 1000, 1000>>, rt |-> 0, lt |-> 1000, pressed |-> {}]
SlowerPad == [axes |-> <<0, 0, 0, 0>>, rt |-> 0, lt |-> 0, pressed |-> {4}]
FasterPad == [axes |-> <<0, 0, 0, 0>>, rt |-> 0, lt |-> 0, pressed |-> {5}]
\* the left trigger fully pressed, the left stick just outside the dead zone
SinkPad == [axes |-> <<0, -157, 0, 0>>, rt |-> 0, lt |-> 1000, pressed |-> {}]

\* ----------------------------------------------------------- specifications
\* damage and mission state: the training arena, driven forward or backward
InitDamage == InitWith({"training_arena"})

NextDamage ==
    \/ \E code \in {"KeyW", "KeyS"} : sim.sessionTime < ShortFrames /\ KeyDown(code)
    \/ sim.sessionTime < ShortFrames /\ Frame(MaxDt, IdlePad)
    \/ sim.sessionTime < DamageFrames /\ Frame(LongFrame, IdlePad)

SpecDamage == InitDamage /\ [][NextDamage]_vars

\* --------------------------------------------------------------- properties
CooldownOf(source) ==
    IF source = "tunnel" THEN TunnelCooldown
    ELSE IF source = "obstacle" THEN collisionCooldown ELSE ObstacleCooldown

\* C1: damage stays within [0, 100] after any sequence of frames and damage events
C1_DamageWithinRange == sim.damage >= 0 /\ sim.damage <= maxDamage

\* C2: the mission is failed exactly when the accumulated damage has reached 100:
\* the flag is set by the damage application that reaches the maximum, never before
C2_FailedIffDamageMax == sim.missionFailed <=> sim.damage >= maxDamage

C2_Witness ==
    /\ sim.missionFailed
    /\ \E i \in 1..Len(sim.events) : sim.events[i].type = "danger"
    /\ Len(Damaging(sim.contacts)) > 0

\* C3: Failed and Completed are terminal and exclusive: never both flags at once
C3_TerminalExclusive == ~(sim.missionFailed /\ sim.missionCompleted)

\* C10: damage cooldown of one obstacle: an overlap with an obstacle no more than the
\* cooldown after that obstacle last applied damage applies none, and an overlap after
\* the cooldown has elapsed applies damage again
C10_Cooldown ==
    [][ now' > now => \A k \in 1..Len(sim'.contacts) :
          LET c == sim'.contacts[k]
              last == obs.lastDamage[c.source][c.index]
              elapsed == now' - last
          IN  (c.source # "tunnel" /\ last # 0) =>
                /\ elapsed <= CooldownOf(c.source) => ~c.damaged
                /\ elapsed > CooldownOf(c.source) => c.damaged ]_vars

\* C11: the last-impact timestamp is kept per obstacle: an overlap with a rock, or an exit
\* from the corridor, applies its damage unless that same source applied damage within
\* its own cooldown; the damage of another source does not suppress it
C11_PerObstacleTimestamp ==
    [][ now' > now => \A k \in 1..Len(sim'.contacts) :
          LET c == sim'.contacts[k]
              last == obs.lastDamage[c.source][c.index]
          IN  (c.source \in {"obstacle", "tunnel"}
                 /\ (last = 0 \/ now' - last > CooldownOf(c.source))) => c.damaged ]_vars

\* distance from a position to the nearest sampled point of the corridor path
CorridorDistance(s, p) == VDist(p, s.tunnelPath[closestIndex(p, s.tunnelPath, 1, 0)])

\* corridorRadius - vehicleRadius - margin
SafeDistance(s) == s.tunnelRadius - getROVCollisionRadius(s) - 500

\* C12: corridor containment, inside case: when the vehicle is no farther from the nearest
\* path point than corridorRadius - vehicleRadius - margin, the corridor check applies no
\* penalty and leaves damage, position and velocity as they were
C12_InsideCorridor ==
    (sim.corridor.checked
       /\ CorridorDistance(sim, sim.corridor.before.position) <= SafeDistance(sim)) =>
        /\ sim.corridor.after.damage = sim.corridor.before.damage
        /\ sim.corridor.after.position = sim.corridor.before.position
        /\ sim.corridor.after.velocity = sim.corridor.before.velocity

\* a corridor check that found the vehicle at exactly the safe distance
C12_Witness ==
    /\ obs.frame /\ sim.corridor.checked
    /\ CorridorDistance(sim, sim.corridor.before.position) = SafeDistance(sim)

\* C13: corridor containment, outside case: whenever the corridor check finds the vehicle
\* farther from the nearest path point than the safe distance, it pushes the vehicle back
\* to within the safe distance of that point and dampens the velocity; only the damage
\* penalty is gated by the cooldown
C13_OutsideCorridor ==
    (sim.corridor.checked
       /\ CorridorDistance(sim, sim.corridor.before.position) > SafeDistance(sim)) =>
        /\ VDist(sim.corridor.after.position,
                 sim.tunnelPath[closestIndex(sim.corridor.before.position, sim.tunnelPath, 1, 0)])
              <= SafeDistance(sim)
        /\ sim.corridor.after.velocity = VScale(sim.corridor.before.velocity, 2, 10)
        /\ sim.corridor.after.damage >= sim.corridor.before.damage

\* C17: damage is monotonically non-decreasing within a session: no event and no frame
\* lowers it, and within a frame neither the corridor check nor the obstacle check
\* that follows it does
C17_DamageMonotonic ==
    /\ [][sim'.damage >= sim.damage]_vars
    /\ [](sim.corridor.checked =>
            /\ sim.corridor.after.damage >= sim.corridor.before.damage
            /\ sim.damage >= sim.corridor.after.damage)

\* objectives and score: every scenario, the vehicle driven back and forth by the stick
InitObjectives == InitWith({"training_arena", "fpso_inspection", "free_dive"})

NextObjectives ==
    \/ GamepadConnected
    \/ \E pad \in {ForwardPad, BackwardPad} :
          sim.sessionTime < ObjectiveFrames /\ Frame(MaxDt, pad)

SpecObjectives == InitObjectives /\ [][NextObjectives]_vars

AwardEvents(events, i) ==
    {k \in 1..Len(events) : events[k].type = "success" /\ events[k].source = "objective"
                                /\ events[k].index = i}

RECURSIVE CompletedPoints(_, _)
\* the points of the completed objectives among the first n
CompletedPoints(objectives, n) ==
    IF n = 0 THEN 0
    ELSE CompletedPoints(objectives, n - 1)
           + (IF objectives[n].completed THEN objectives[n].points ELSE 0)

\* C4: after a frame's objective evaluation, missionCompleted is true if and only if
\* every objective of the session's list is completed
C4_CompletedIffAll ==
    sim.sessionTime > 0 =>
        (sim.missionCompleted <=> \A i \in 1..Len(sim.objectives) : sim.objectives[i].completed)

\* the mission completes in a frame that awards the last of two objectives
C4_Witness ==
    /\ obs.frame /\ sim.missionCompleted /\ Len(sim.objectives) = 2
    /\ \E k \in 1..Len(sim.events) : sim.events[k].source = "mission"
    /\ AwardEvents(sim.events, 1) # {} /\ AwardEvents(sim.events, 2) = {}

\* C5: an objective is awarded at most once: a completed objective stays completed and
\* no later frame awards it again, wherever the vehicle is
C5_AwardedOnce ==
    [][ \A i \in 1..Len(sim.objectives) :
          sim.objectives[i].completed =>
              /\ sim'.objectives[i].completed
              /\ now' > now => AwardEvents(sim'.events, i) = {} ]_vars

\* a frame evaluated with the vehicle back inside the trigger radius of a completed
\* objective it had left
C5_Witness ==
    /\ obs.frame
    /\ \E i \in obs.outside : sim.objectives[i].completed /\ InsideTrigger(sim, i)

\* C6: the score is the sum of the points of the completed objectives, and no step
\* decreases it
C6_ScoreIsSum ==
    /\ [](sim.score = CompletedPoints(sim.objectives, Len(sim.objectives)))
    /\ [][sim'.score >= sim.score]_vars

\* a frame that left the score at the points of one of several objectives
C6_Witness ==
    /\ obs.frame /\ sim.score > 0
    /\ \E i \in 1..Len(sim.objectives) : ~sim.objectives[i].completed /\ sim.objectives[i].points > 0
    /\ \E i \in 1..Len(sim.objectives) : AwardEvents(sim.events, i) # {}

\* the integrator: open water, thrust and yaw held from the start, the speed multiplier
\* raised before the first frame and lowered at any time
InitPhysics == InitWith({"free_dive"})

NextPhysics ==
    \/ \E code \in {"KeyW", "ArrowLeft"} : sim.sessionTime = 0 /\ KeyDown(code)
    \/ sim.sessionTime = 0 /\ sim.speedMultiplier < MaxBoost /\ KeyDown("ShiftLeft")
    \/ KeyDown("ControlLeft")
    \/ sim.sessionTime < PhysicsFrames /\ Frame(MaxDt, IdlePad)

SpecPhysics == InitPhysics /\ [][NextPhysics]_vars

\* C7: after every integrator step the speed is at most 25 * speedMultiplier and the yaw
\* rate at most 10 * speedMultiplier, whatever the commands and multiplier changes before
C7_SpeedLimits ==
    (obs.frame /\ ~obs.paused) =>
        /\ VLen(sim.rov.velocity) <= (25000 * sim.speedMultiplier) \div 4
        /\ Abs(sim.rov.angularVelocity) <= (10000 * sim.speedMultiplier) \div 4

\* a step whose clamps both acted: the multiplier was lowered at speed
C7_Witness ==
    /\ obs.frame /\ ~obs.paused /\ obs.limited
    /\ sim.rov.velocity.x # 0 /\ sim.rov.velocity.z # 0
    /\ Abs(sim.rov.angularVelocity) = (10000 * sim.speedMultiplier) \div 4

\* pausing: the training arena, driven forward, paused and resumed with Escape
InitPause == InitWith({"training_arena"})

NextPause ==
    \/ sim.sessionTime = 0 /\ KeyDown("KeyW")
    \/ KeyDown("Escape")
    \/ \E elapsed \in {MaxDt, LongFrame} :
          sim.sessionTime < PauseFrames /\ Frame(elapsed, IdlePad)

SpecPause == InitPause /\ [][NextPause]_vars

\* C8: a frame taken while the simulation is paused leaves position, velocity, yaw,
\* damage, missionFailed, objective completion and score as they were
C8_PausedFrameHolds ==
    [][ (now' > now /\ obs'.paused) =>
          /\ sim'.rov.position = sim.rov.position
          /\ sim'.rov.velocity = sim.rov.velocity
          /\ sim'.rov.rotation = sim.rov.rotation
          /\ sim'.damage = sim.damage
          /\ sim'.missionFailed = sim.missionFailed
          /\ sim'.objectives = sim.objectives
          /\ sim'.score = sim.score ]_vars

\* input: open water, keys pressed and released, a gamepad that comes and goes
InitInput == InitWith({"free_dive"})

NextInput ==
    \/ \E code \in {"KeyW", "KeyS", "Space"} : KeyDown(code)
    \/ \E code \in {"KeyW", "KeyS"} : KeyUp(code)
    \/ GamepadConnected
    \/ GamepadDisconnected
    \/ \E pad \in {IdlePad, ForwardPad, PausePad} :
          sim.sessionTime < InputFrames /\ Frame(MaxDt, pad)

SpecInput == InitInput /\ [][NextInput]_vars

MovementKeys ==
    {"KeyW", "KeyS", "KeyA", "KeyD", "KeyQ", "KeyE", "ArrowLeft", "ArrowRight"}

\* C9: the command is not retained: a frame taken with the vehicle armed, no gamepad
\* connected and no movement key held consumes a command that is zero on every axis
C9_CommandNotRetained ==
    (obs.frame /\ sim.isArmed /\ ~gamepad.connected /\ sim.keys \cap MovementKeys = {}) =>
        /\ obs.command.surge = 0 /\ obs.command.sway = 0
        /\ obs.command.heave = 0 /\ obs.command.yaw = 0

\* the world limits: the shallow reef and the training arena, thrust and heave keys
\* pressed and released between frames
InitBoundary == InitWith({"shallow_reef", "training_arena"})

NextBoundary ==
    \/ \E code \in {"KeyW", "KeyS", "KeyQ", "KeyE"} :
          sim.sessionTime < BoundaryFrames /\ KeyDown(code)
    \/ \E code \in {"KeyQ", "KeyE"} : KeyUp(code)
    \/ sim.sessionTime < BoundaryFrames /\ Frame(MaxDt, IdlePad)

SpecBoundary == InitBoundary /\ [][NextBoundary]_vars

Ceiling == -2000
Floor(s) == -s.environment.seabedDepth + 1000

\* C14: at the end of every frame, after the integrator and the collision steps,
\* position.y is at most the near-surface ceiling (-2) and at least -seabedDepth + 1
C14_WithinLimits ==
    obs.frame => (sim.rov.position.y <= Ceiling /\ sim.rov.position.y >= Floor(sim))

Detected(source, i) ==
    \E k \in 1..Len(sim.contacts) : sim.contacts[k].source = source /\ sim.contacts[k].index = i

\* a response of checkCollisions or checkTunnelCollision moved the vehicle in this frame
Pushed ==
    \E k \in 1..Len(sim.contacts) :
        sim.contacts[k].damaged /\ sim.contacts[k].source \in {"obstacle", "tunnel"}

\* the response to an earlier obstacle of the list moved the vehicle before obstacle i
PushedBefore(i) ==
    \E k \in 1..Len(sim.contacts) :
        sim.contacts[k].damaged /\ sim.contacts[k].source = "obstacle" /\ sim.contacts[k].index < i

\* C20: sphere overlap boundary: a sphere obstacle that a frame tests with the vehicle
\* nearer to its centre than obstacleRadius + vehicleRadius is detected as colliding, and
\* one at that distance or farther is not (the vehicle is where the integrator left it
\* until a response moves it; the corridor obstacles are tested up to the first overlap)
C20_SphereOverlap ==
    obs.frame =>
        /\ \A i \in 1..Len(sim.obstacles) :
              (sim.obstacles[i].radius > 0 /\ ~PushedBefore(i)) =>
                (Detected("obstacle", i)
                   <=> VDist(sim.integrated.position, sim.obstacles[i].position)
                         < sim.obstacles[i].radius + rovHitboxes[sim.currentROVModel])
        /\ (sim.scenarioId = "training_arena" /\ ~Pushed) =>
              \A i \in 1..Len(sim.tunnelObstacles) :
                (~sim.tunnelObstacles[i].isWall
                   /\ \A j \in 1..(i - 1) : ~Detected("tunnelObstacle", j)) =>
                  (Detected("tunnelObstacle", i)
                     <=> VDist(sim.integrated.position, sim.tunnelObstacles[i].position)
                           < sim.tunnelObstacles[i].collisionRadius
                               + rovHitboxes[sim.currentROVModel])

\* a frame that tested a rock with the vehicle at exactly the sum of the radii
C20_Witness ==
    /\ obs.frame /\ sim.contacts = <<>>
    /\ \E i \in 1..Len(sim.obstacles) :
          /\ sim.obstacles[i].radius > 0
          /\ VDist(sim.integrated.position, sim.obstacles[i].position)
                = sim.obstacles[i].radius + rovHitboxes[sim.currentROVModel]

\* coasting: open water, the vehicle on the floor, a gamepad whose stick and trigger are
\* pressed and let go, frames of 1/60 s and of 0.1 s
InitDrift == InitWith({"free_dive"})

NextDrift ==
    \/ GamepadConnected
    \/ \E elapsed \in {1, MaxDt} : \E pad \in {IdlePad, ForwardPad, SinkPad} :
          sim.sessionTime < DriftFrames /\ Frame(elapsed, pad)

SpecDrift == InitDrift /\ [][NextDrift]_vars

ZeroCommand(input) == input.surge = 0 /\ input.sway = 0 /\ input.heave = 0 /\ input.yaw = 0

InitSpeed == InitWith({"free_dive"})

NextSpeed ==
    \/ \E code \in {"ShiftLeft", "ControlLeft"} : KeyDown(code)
    \/ GamepadConnected
    \/ \E pad \in {IdlePad, SlowerPad, FasterPad} :
          sim.sessionTime < SpeedFrames /\ Frame(MaxDt, pad)

SpecSpeed == InitSpeed /\ [][NextSpeed]_vars

\* C18: after any sequence of keyboard and gamepad speed-control events the speed
\* multiplier is within [0.25, 20.0]
C18_MultiplierRange == sim.speedMultiplier >= 1 /\ sim.speedMultiplier <= 80

\* the keyboard's upper limit reached after both devices have lowered and raised it
C18_Witness ==
    /\ sim.speedMultiplier = 40 /\ "ControlLeft" \in sim.keys
    /\ obs.frame /\ gamepad.buttonState = {5}

\* the command: open water, movement and camera keys pressed before and between the
\* first frames, a gamepad whose sticks go from stop to stop and are then held
InitCommand == InitWith({"free_dive"})

NextCommand ==
    \/ \E code \in {"KeyW", "KeyE", "ArrowUp", "ArrowRight"} :
          sim.sessionTime < CommandFrames /\ KeyDown(code)
    \/ GamepadConnected
    \/ \E pad \in {IdlePad, FullPad, ReversePad} :
          sim.sessionTime < CommandFrames /\ Frame(MaxDt, pad)
    \/ sim.sessionTime < TiltFrames /\ Frame(MaxDt, FullPad)

SpecCommand == InitCommand /\ [][NextCommand]_vars

InRange(lo, hi, a) == lo <= a /\ a <= hi

\* C19: every command handed to the integrator has surge, sway, heave and yaw within
\* [-1, 1], and cameraPitch stays within [-0.8, 0.8], for any keyboard and gamepad input
C19_CommandRange ==
    /\ InRange(-800, 800, sim.cameraPitch)
    /\ obs.frame =>
          /\ InRange(-1000, 1000, obs.command.surge) /\ InRange(-1000, 1000, obs.command.sway)
          /\ InRange(-1000, 1000, obs.command.heave) /\ InRange(-1000, 1000, obs.command.yaw)

\* key and stick both fully forward, the camera pitch at its stop
C19_Witness ==
    /\ obs.frame /\ gamepad.connected /\ "KeyW" \in sim.keys
    /\ obs.command.surge = 1000 /\ obs.command.heave = 1000
    /\ sim.cameraPitch = 800

\* nothing registered: open water whose scenario model has no mesh, no obstacle and no
\* corridor; thrust, heave and yaw keys pressed and released, frames of 0.1 s and stalls
InitBare == InitWith({"open_water"})

NextBare ==
    \/ \E code \in {"KeyW", "KeyQ", "ArrowLeft"} : KeyDown(code)
    \/ \E code \in {"KeyW", "KeyQ", "ArrowLeft"} : KeyUp(code)
    \/ \E elapsed \in {MaxDt, LongFrame} : sim.sessionTime < BareFrames /\ Frame(elapsed, IdlePad)

SpecBare == InitBare /\ [][NextBare]_vars

NothingRegistered(s) ==
    /\ Len(s.collisionSystem.collidableObjects) = 0 /\ Len(s.obstacles) = 0
    /\ Len(s.tunnelPath) = 0 /\ Len(s.tunnelObstacles) = 0

\* C21: when no collidable geometry, obstacle list or corridor is registered, every
\* detection call is a no-op: ray probing returns a zero correction, each of the three
\* checks leaves the simulator as it is, and a frame moves the vehicle by its velocity
\* alone and leaves position, velocity and damage as the integrator left them
C21_NothingRegistered ==
    /\ [](NothingRegistered(sim) =>
            /\ rayCheckCollisions(sim.collisionSystem, sim.rov.position, sim.rov.rotation) = Zero3
            /\ checkCollisions(sim, now) = sim
            /\ checkTunnelCollision(sim, now) = sim
            /\ checkObstacleCollision(sim, now) = sim
            /\ sim.rov.position = sim.integrated.position
            /\ sim.rov.velocity = sim.integrated.velocity
            /\ sim.damage = 0 /\ sim.contacts = <<>>)
    /\ [][ (NothingRegistered(sim) /\ now' > now /\ ~obs'.paused) =>
            /\ sim'.rov.position.x
                  = sim.rov.position.x + MulDiv(sim'.rov.velocity.x, obs'.dt, TicksPerSecond)
            /\ sim'.rov.position.z
                  = sim.rov.position.z + MulDiv(sim'.rov.velocity.z, obs'.dt, TicksPerSecond) ]_vars

\* a frame of a moving, turned vehicle with a collision system that holds no mesh
C21_Witness ==
    /\ obs.frame /\ NothingRegistered(sim) /\ sim.collisionSystem.present
    /\ sim.rov.velocity.x # 0 /\ sim.rov.velocity.z # 0 /\ sim.rov.position.y > Depth

\* the order of the steps: the arena gate, thrust held from the start, twenty stalled
\* frames that wear the vehicle down on the first rock, then frames of either length
InitOrder == InitWith({"arena_gate"})

NextOrder ==
    \/ sim.sessionTime = 0 /\ KeyDown("KeyW")
    \/ sim.sessionTime < StallFrames /\ Frame(LongFrame, IdlePad)
    \/ \E elapsed \in {MaxDt, LongFrame} :
          sim.sessionTime >= StallFrames /\ sim.sessionTime < OrderFrames /\ Frame(elapsed, IdlePad)

SpecOrder == InitOrder /\ [][NextOrder]_vars

InsideTriggerAt(s, i, p) ==
    VDist(p, s.objectives[i].target)
        < (IF s.objectives[i].radius = 0 THEN 5000 ELSE s.objectives[i].radius)

\* C22: within a frame the steps run in the order integrator, collision detection with
\* its damage and mission check, objective evaluation: a distance objective still open
\* is awarded by the frame exactly when the position left by the frame's collision
\* corrections is inside its trigger radius, and the event of a failed mission
\* precedes every objective and mission-completed event of the same frame
C22_FrameOrder ==
    [][ now' > now =>
          /\ \A i \in 1..Len(sim.objectives) :
                (~sim.objectives[i].completed /\ sim.objectives[i].type = "distance") =>
                    (sim'.objectives[i].completed <=> InsideTriggerAt(sim', i, sim'.rov.position))
          /\ \A k, j \in 1..Len(sim'.events) :
                (sim'.events[k].type = "danger" /\ sim'.events[j].type = "success") => k < j ]_vars

\* a frame whose integrator step left the vehicle outside the trigger radius of the open
\* objective, whose collision response pushed it inside and destroyed the vehicle, and
\* whose objective evaluation then awarded the objective
C22_Witness ==
    /\ obs.frame /\ ~obs.paused /\ Len(Damaging(sim.contacts)) > 0
    /\ ~InsideTriggerAt(sim, 1, sim.integrated.position)
    /\ InsideTriggerAt(sim, 1, sim.rov.position)
    /\ AwardEvents(sim.events, 1) # {}
    /\ \E k \in 1..Len(sim.events) : sim.events[k].type = "danger"

\* the discrete-shape collisions a frame resolved: a rock of the obstacle list answers
\* with damage, push and dampening together, a corridor obstacle always with a push
Resolved(contacts) ==
    {k \in 1..Len(contacts) :
        \/ contacts[k].source = "obstacle" /\ contacts[k].damaged
        \/ contacts[k].source = "tunnelObstacle"}

\* C23: at most one discrete-shape collision is resolved per frame: once the first
\* overlapping obstacle has been handled, no further obstacle causes damage, a push or
\* a velocity change in that frame
C23_OneResolved == obs.frame => Cardinality(Resolved(sim.contacts)) <= 1

\* coinciding centres: the arena centre, thrust keys pressed and released, the
\* simulation paused and resumed, frames of 0.1 s and stalls
InitCentre == InitWith({"arena_centre"})

NextCentre ==
    \/ \E code \in {"KeyW", "KeyQ", "Escape"} : KeyDown(code)
    \/ \E code \in {"KeyW", "KeyQ"} : KeyUp(code)
    \/ \E elapsed \in {MaxDt, LongFrame} : sim.sessionTime < CentreFrames /\ Frame(elapsed, IdlePad)

SpecCentre == InitCentre /\ [][NextCentre]_vars

\* a vector of numbers
Defined(v) == v.x \in Int /\ v.y \in Int /\ v.z \in Int

C25_AutomaticAwarded ==
    /\ [](sim.sessionTime > 0 =>
            \A i \in 1..Len(sim.objectives) :
                sim.objectives[i].type = "auto" => sim.objectives[i].completed)
    /\ [][ now' > now =>
            /\ \A i \in 1..Len(sim.objectives) :
                  (sim.objectives[i].type = "auto" /\ ~sim.objectives[i].completed) =>
                      /\ sim'.objectives[i].completed
                      /\ Cardinality(AwardEvents(sim'.events, i)) = 1
            /\ sim'.score - sim.score
                  = CompletedPoints(sim'.objectives, Len(sim.objectives))
                      - CompletedPoints(sim.objectives, Len(sim.objectives)) ]_vars

\* a first frame that awarded the automatic objective to a moving, damaged vehicle
C25_Witness ==
    /\ obs.frame /\ sim.sessionTime = 1 /\ sim.damage > 0 /\ sim.rov.velocity # Zero3
    /\ \E i \in 1..Len(sim.objectives) :
          /\ sim.objectives[i].type = "auto" /\ sim.objectives[i].completed
          /\ AwardEvents(sim.events, i) # {} /\ sim.score = sim.objectives[i].points

\* C26: ray-probing response: the correction accumulated over all rays is added to the
\* vehicle position once per frame, and whenever it is non-zero the velocity component
\* parallel to the correction direction is cancelled, so that the integrator step does
\* not leave the vehicle moving into the obstruction
C26_RayResponse ==
    (obs.frame /\ ~obs.paused /\ VLen(sim.probe.correction) > 0) =>
        /\ sim.integrated.position.x = sim.probe.moved.position.x + sim.probe.correction.x
        /\ sim.integrated.position.z = sim.probe.moved.position.z + sim.probe.correction.z
        /\ VDotUnit(sim.integrated.velocity, VNormalize(sim.probe.correction)) >= 0

\* an integrator step of dt ticks with zero command
Coast(s, dt) == updatePhysics([s EXCEPT !.input = ZeroInput], dt)

OneStep(s, dt) == Coast(s, dt).rov.velocity
TwoSteps(s, half) == Coast(Coast(s, half), half).rov.velocity

\* one unit of the velocity grid, mm/s: what two roundings of a product can differ by
Rounding == 1

Near(u, v) ==
    /\ Abs(u.x - v.x) <= Rounding /\ Abs(u.y - v.y) <= Rounding /\ Abs(u.z - v.z) <= Rounding

\* C27: drag is frame-rate independent: with zero command and zero current, integrating
\* a time span as one step leaves the same velocity as integrating it as two steps of
\* half the length, as long as no step snaps the velocity to zero
C27_DragFrameRate ==
    ~sim.isPaused =>
        \A half \in 1..(MaxDt \div 2) :
            (OneStep(sim, 2 * half) # Zero3 /\ OneStep(sim, half) # Zero3
               /\ TwoSteps(sim, half) # Zero3) =>
                Near(OneStep(sim, 2 * half), TwoSteps(sim, half))

\* a vehicle coasting after a frame with zero command, fast enough for one step of 0.1 s and two of 0.05 s
\* to take a visibly different amount of speed than a single step of 0.05 s
C27_Witness ==
    /\ obs.frame /\ ~sim.isPaused /\ sim.environment.currentX = 0 /\ sim.environment.currentY = 0
    /\ ZeroCommand(obs.command) /\ sim.rov.velocity # Zero3
    /\ TwoSteps(sim, MaxDt \div 2) # Zero3
    /\ ~Near(OneStep(sim, MaxDt), OneStep(sim, MaxDt \div 2))

\* C28: speed controls are monotone: an increase-speed action (Shift key, gamepad RB)
\* never lowers speedMultiplier and a decrease-speed action (Control key, gamepad LB)
\* never raises it, for any interleaving of keyboard and gamepad actions
C28_SpeedMonotone ==
    [][ /\ KeyDown("ShiftLeft") => sim'.speedMultiplier >= sim.speedMultiplier
        /\ KeyDown("ControlLeft") => sim'.speedMultiplier <= sim.speedMultiplier
        /\ (now' > now /\ gamepad.connected /\ 5 \in gamepad'.buttonState \ gamepad.buttonState) =>
              sim'.speedMultiplier >= sim.speedMultiplier
        /\ (now' > now /\ gamepad.connected /\ 4 \in gamepad'.buttonState \ gamepad.buttonState) =>
              sim'.speedMultiplier <= sim.speedMultiplier ]_vars

\* ---------------------------------------------------------- model selection
\* the click listener of a .rov-option element
selectROV(s, modelName) ==
    IF modelName # s.currentROVModel
    THEN addEvent([s EXCEPT !.currentROVModel = modelName,
                            !.rovModel.loading = Append(@, modelName),
                            !.rovModel.requested = @ + 1], "info", "model", 0)
    ELSE s

\* a load in flight is over
Settle(loading, i) == SubSeq(loading, 1, i - 1) \o SubSeq(loading, i + 1, Len(loading))

\* the onLoad callback of loadRealROVModel: the meshes attached before are removed,
\* the mesh of the model this load asked for is attached
onLoad(s, i) ==
    addEvent([s EXCEPT !.rovModel.mesh = s.rovModel.loading[i],
                       !.rovModel.loading = Settle(@, i)], "success", "model", 0)

\* the onError callback of loadRealROVModel: a warning, the vehicle is left as it is
onError(s, i) ==
    [s EXCEPT !.rovModel.loading = Settle(@, i), !.rovModel.failed = @ + 1]

SelectROV(modelName) ==
    /\ sim' = selectROV(sim, modelName)
    /\ obs' = [obs EXCEPT !.frame = FALSE]
    /\ UNCHANGED <<gamepad, now>>

ModelLoaded(i) ==
    /\ i <= Len(sim.rovModel.loading)
    /\ sim' = onLoad(sim, i)
    /\ obs' = [obs EXCEPT !.frame = FALSE]
    /\ UNCHANGED <<gamepad, now>>

ModelFailed(i) ==
    /\ i <= Len(sim.rovModel.loading)
    /\ sim' = onError(sim, i)
    /\ obs' = [obs EXCEPT !.frame = FALSE]
    /\ UNCHANGED <<gamepad, now>>

\* the selector: clicks on the two options, loads that end in any order, frames
InitSelector == InitWith({"free_dive"})

NextSelector ==
    \/ \E modelName \in DOMAIN rovHitboxes :
          sim.rovModel.requested < MaxLoads /\ SelectROV(modelName)
    \/ \E i \in 1..MaxLoads : ModelLoaded(i)
    \/ \E i \in 1..MaxLoads : ModelFailed(i)
    \/ sim.sessionTime < SelectorFrames /\ Frame(MaxDt, IdlePad)

SpecSelector == InitSelector /\ [][NextSelector]_vars

\* C29: model selection is race-free: for any order in which the loads complete, once
\* every load has settled the mesh attached to the vehicle is the one of
\* currentROVModel, the model whose hitbox radius the collision checks use
C29_SelectionRaceFree ==
    (sim.rovModel.loading = <<>> /\ sim.rovModel.failed = 0) =>
        /\ sim.rovModel.mesh = sim.currentROVModel
        /\ getROVCollisionRadius(sim) = rovHitboxes[sim.rovModel.mesh]

\* ------------------------------------------------------ collision responses
\* the speed is not above another one, up to rounding
NotFaster(after, before) == VLen(after) <= VLen(before) + Rounding

\* the four responses: a corridor whose only point is behind the start, out of the safe
\* distance; a scenario face, a rock and a corridor obstacle ahead
InitResponses == InitWith({"arena_wall"})

NextResponses ==
    \/ KeyDown("KeyW")
    \/ KeyUp("KeyW")
    \/ \E elapsed \in {MaxDt, LongFrame} :
          sim.sessionTime < ResponseFrames /\ Frame(elapsed, IdlePad)

SpecResponses == InitResponses /\ [][NextResponses]_vars

\* C30: no collision response increases the speed: the ray correction, the generic
\* obstacle response, the corridor push and the obstacle push each leave |velocity| at
\* most what it was before the response, so the bound the integrator established holds
\* at the end of the frame
C30_NoSpeedGain ==
    obs.frame =>
        /\ ~obs.paused => NotFaster(sim.integrated.velocity, sim.probe.moved.velocity)
        /\ IF sim.scenarioId = "training_arena"
           THEN /\ NotFaster(sim.corridor.before.velocity, sim.integrated.velocity)
                /\ NotFaster(sim.corridor.after.velocity, sim.corridor.before.velocity)
                /\ NotFaster(sim.rov.velocity, sim.corridor.after.velocity)
           ELSE NotFaster(sim.rov.velocity, sim.integrated.velocity)
        /\ ~obs.paused => VLen(sim.rov.velocity) <= (25000 * sim.speedMultiplier) \div 4 + Rounding

\* a frame in which the ray correction, the rock response and the corridor obstacle push
\* each took speed from the vehicle, in a run whose corridor check had done so before
C30_Witness ==
    /\ obs.frame /\ ~obs.paused
    /\ sim.probe.correction # Zero3
    /\ VLen(sim.integrated.velocity) < VLen(sim.probe.moved.velocity)
    /\ VLen(sim.corridor.before.velocity) < VLen(sim.integrated.velocity)
    /\ VLen(sim.rov.velocity) < VLen(sim.corridor.after.velocity)
    /\ obs.lastDamage.tunnel[1] > 0

====
